---- MODULE Spec2Model ----
(***************************************************************************)
(* A model of the forgo rendering engine (src/src/index.ts): the live      *)
(* document tree, the state attached to its nodes, and the three entry     *)
(* points mount(), render() and rerender().  Every render function of the  *)
(* engine is an operator of the same name that takes the world (document,  *)
(* component states, component instances, callback log) and returns the    *)
(* world after it, the nodes it produced and the value it threw, if any.   *)
(***************************************************************************)
EXTENDS Integers, Sequences, FiniteSets, TLC

VARIABLES
    app,        \* which application (set of components and descriptions) runs
    dom,        \* the document: node id -> node record
    cs,         \* heap of NodeAttachedComponentState objects
    insts,      \* heap of component instances with their args.element
    counter,    \* the module-level render counter of the test script
    refs,       \* the ForgoRef objects of the application: name -> value
    log,        \* callbacks invoked by the last entry-point call, in order
    syncs,      \* the syncStateAndProps calls of the last entry-point call
    matches,    \* the matches the candidate search of the last call found
    reconciled, \* the renderDOMElementChildNodes calls the last call completed
    texts,      \* the renderText calls of the last call over a non-empty window
    op,         \* the last entry-point call: its inputs and its outcome
    prev,       \* the world just before the last entry-point call
    nCalls      \* number of entry-point calls so far

vars == <<app, dom, cs, insts, counter, refs, log, syncs, matches, reconciled, texts, op,
          prev, nCalls>>

(* Bound of the exploration: the number of entry-point calls in a run. *)
MaxCalls == 3

(* The node types of the DOM standard. *)
ELEMENT_NODE_TYPE == 1
TEXT_NODE_TYPE == 3

NoNode == 0     \* undefined / null node reference
NoProps == -1   \* props argument left undefined
NoErr == "none" \* nothing thrown

\* const x = value; followed by the rest of the block, which reads x
With(value, rest(_)) == rest(value)

-----------------------------------------------------------------------------
(* JavaScript values and array helpers (indices are zero-based as in JS).  *)

Min(a, b) == IF a < b THEN a ELSE b
Max(a, b) == IF a > b THEN a ELSE b

\* array[i], undefined (NoNode) outside the array
At(seq, i) == IF i >= 0 /\ i < Len(seq) THEN seq[i + 1] ELSE NoNode

\* Array.prototype.slice(start, end), negative indices counted from the end
Slice(seq, start, end) ==
    LET n == Len(seq)
        st == IF start < 0 THEN Max(n + start, 0) ELSE Min(start, n)
        en == IF end < 0 THEN Max(n + end, 0) ELSE Min(end, n)
    IN  IF st >= en THEN << >> ELSE SubSeq(seq, st + 1, en)

\* Array.prototype.findIndex(x => x === v): -1 when absent
FindIndex(seq, v) ==
    IF \E i \in 1..Len(seq) : seq[i] = v
    THEN (CHOOSE i \in 1..Len(seq) : seq[i] = v /\ \A j \in 1..(i - 1) : seq[j] # v) - 1
    ELSE -1

InsertAt(seq, i, x) == SubSeq(seq, 1, i) \o <<x>> \o SubSeq(seq, i + 1, Len(seq))

RemoveAll(seq, x) == SelectSeq(seq, LAMBDA y : y # x)

\* keys: undefined, a string or a number
UndefKey == [t |-> "undefined", s |-> "", n |-> 0]
StrKey(s) == [t |-> "string", s |-> s, n |-> 0]
NumKey(n) == [t |-> "number", s |-> "", n |-> n]
\* JavaScript truthiness of a key: undefined, "" and 0 are falsy
Truthy(k) == (k.t = "string" /\ k.s # "") \/ (k.t = "number" /\ k.n # 0)

\* String.prototype.toUpperCase / toLowerCase on the tag names in use
ToUpperCase(s) ==
    CASE s = "div" -> "DIV" [] s = "p" -> "P" [] s = "span" -> "SPAN"
      [] s = "ul" -> "UL" [] s = "li" -> "LI" [] s = "b" -> "B"
      [] s = "input" -> "INPUT"
      [] OTHER -> s
ToLowerCase(s) ==
    CASE s = "DIV" -> "div" [] s = "P" -> "p" [] s = "SPAN" -> "span"
      [] s = "UL" -> "ul" [] s = "LI" -> "li" [] s = "B" -> "b"
      [] s = "INPUT" -> "input"
      [] OTHER -> s

-----------------------------------------------------------------------------
(* Node descriptions (ForgoNode).                                          *)

Str(s) == [t |-> "prim", pt |-> "string", s |-> s, n |-> 0]
Num(n) == [t |-> "prim", pt |-> "number", s |-> "", n |-> n]
Null == [t |-> "prim", pt |-> "null", s |-> "", n |-> 0]
Undefined == [t |-> "prim", pt |-> "undefined", s |-> "", n |-> 0]
Arr(items) == [t |-> "arr", items |-> items]
\* a tagged element; props is the set of <<name, value>> attribute entries
El(type, key, props, children) ==
    [t |-> "el", type |-> type, key |-> key, props |-> props, children |-> children]
\* a component element; props is the component's props value
Comp(ctor, key, props) == [t |-> "comp", type |-> ctor, key |-> key, props |-> props]

isForgoElement(f) == f.t \in {"el", "comp"}
isForgoDOMElement(f) == isForgoElement(f) /\ f.t = "el"

\* stringOfPrimitiveNode: "" for null and undefined, toString() otherwise
stringOfPrimitiveNode(f) ==
    IF f.pt \in {"undefined", "null"} THEN ""
    ELSE IF f.pt = "number" THEN ToString(f.n)
    ELSE f.s

RECURSIVE flatten(_)
flatten(array) ==
    IF array = << >> THEN << >>
    ELSE LET entry == Head(array)
         IN  (IF entry.t = "arr" THEN flatten(entry.items) ELSE <<entry>>)
                 \o flatten(Tail(array))

-----------------------------------------------------------------------------
(* The document.                                                           *)

NoAttrs == [id |-> "undefined"]
NoState == [has |-> FALSE, key |-> UndefKey, hasProps |-> FALSE, props |-> {},
            components |-> << >>]

Body == 1        \* document.body
Root == 2        \* the container element, a child of body
Stray == 3       \* a text node beside the container

NodeRec(type, tag, text, parent, kids) ==
    [nodeType |-> type, tagName |-> tag, text |-> text, parentNode |-> parent,
     childNodes |-> kids, forgo |-> NoState, attrs |-> NoAttrs]

InitDom ==
    << NodeRec(ELEMENT_NODE_TYPE, "BODY", "", NoNode, <<Root, Stray>>),
       NodeRec(ELEMENT_NODE_TYPE, "DIV", "", Body, << >>),
       NodeRec(TEXT_NODE_TYPE, "#text", "\n", Body, << >>) >>

createTextNode(w, s) ==
    [w EXCEPT !.dom = Append(@, NodeRec(TEXT_NODE_TYPE, "#text", s, NoNode, << >>))]
createElement(w, type) ==
    [w EXCEPT !.dom = Append(@, NodeRec(ELEMENT_NODE_TYPE, ToUpperCase(type), "", NoNode, << >>))]
\* the node the last create* call made
Created(w) == Len(w.dom)

childNodes(w, p) == w.dom[p].childNodes
getForgoState(w, node) == w.dom[node].forgo
setForgoState(w, node, state) == [w EXCEPT !.dom[node].forgo = state]

\* an insertBefore that appends whatever ref is
insertBefore_Appends(w, p, node, ref) ==
    [w EXCEPT !.dom[p].childNodes = Append(@, node), !.dom[node].parentNode = p]
\* parent.insertBefore(node, ref): appends when ref is undefined
insertBefore(w, p, node, ref) ==
    LET kids == w.dom[p].childNodes
        at == IF ref = NoNode THEN Len(kids) ELSE FindIndex(kids, ref)
    IN  [w EXCEPT !.dom[p].childNodes = InsertAt(kids, at, node),
                  !.dom[node].parentNode = p]
prepend(w, p, node) ==
    [w EXCEPT !.dom[p].childNodes = <<node>> \o @, !.dom[node].parentNode = p]
\* a replaceWith that puts the node before old and leaves old in place
replaceWith_Keeps(w, old, node) ==
    LET p == w.dom[old].parentNode
    IN  IF p = NoNode THEN w
        ELSE [w EXCEPT !.dom[p].childNodes =
                           InsertAt(@, FindIndex(w.dom[p].childNodes, old), node),
                       !.dom[node].parentNode = p]

\* old.replaceWith(node): nothing happens when old has no parent
replaceWith(w, old, node) ==
    LET p == w.dom[old].parentNode
    IN  IF p = NoNode THEN w
        ELSE [w EXCEPT !.dom[p].childNodes[FindIndex(w.dom[p].childNodes, old) + 1] = node,
                       !.dom[node].parentNode = p,
                       !.dom[old].parentNode = NoNode]
\* node.remove()
remove(w, node) ==
    LET p == w.dom[node].parentNode
    IN  IF p = NoNode THEN w
        ELSE [w EXCEPT !.dom[p].childNodes = RemoveAll(@, node),
                       !.dom[node].parentNode = NoNode]

\* whether the node is in the document (under body)
RECURSIVE InDocument(_, _)
InDocument(d, node) ==
    IF node = NoNode THEN FALSE
    ELSE IF node = Body THEN TRUE
    ELSE InDocument(d, d[node].parentNode)

-----------------------------------------------------------------------------
(* The components of the applications: what each constructor's component   *)
(* exposes (ForgoComponent) and what its render returns for its props.     *)

Ctors == {"Component", "Frag", "Outer", "Parent", "List", "Item", "Other",
          "Switch", "Boundary", "Thrower", "Label", "Input",
          "Faulty", "Tab", "Page", "Panel", "Fragile", "Host"}

HasRender(ctor) == ctor \in Ctors
HasMount(ctor) == ctor \in Ctors \ {"Component"}
HasUnmount(ctor) == ctor \in Ctors
HasAfterRender(ctor) == ctor \in {"Outer", "Frag"}
HasShouldUpdate(ctor) == ctor = "Outer"
HasError(ctor) == ctor \in {"Boundary", "Faulty", "Fragile"}

\* shouldUpdate(newProps, oldProps) of Outer: update only on changed props
ShouldUpdate(ctor, newProps, oldProps) == newProps # oldProps

Div(text) == El("div", UndefKey, {}, Arr(<<Str(text)>>))
ThreeDivs == Arr(<<Div("1"), Div("2"), Div("3")>>)
KeyedItem(k) == Comp("Item", StrKey(k), 0)
KeyedLi(k) == El("li", StrKey(k), {}, Arr(<<Str(k)>>))
Ul(children) == El("ul", UndefKey, {}, Arr(children))

\* the description a component's render returns; count is the value of the
\* script's counter after this call incremented it
RenderOut(ctor, props, count) ==
    CASE ctor = "Component" ->
            IF count = 1 THEN ThreeDivs ELSE El("p", UndefKey, {}, Arr(<<Str("1")>>))
      [] ctor = "Frag" -> IF props = 1 THEN ThreeDivs ELSE Div("1")
      [] ctor = "Outer" -> Comp("Frag", UndefKey, props)
      [] ctor = "Parent" ->
            El("div", UndefKey, {},
               Arr(<<Comp("Outer", UndefKey, props), El("span", UndefKey, {}, Undefined)>>))
      [] ctor = "Host" ->
            El("div", UndefKey, {},
               Arr(<<Comp("Outer", UndefKey, 1), El("span", UndefKey, {}, Undefined),
                     El("span", UndefKey, {}, Undefined)>>))
      [] ctor = "List" ->
            CASE props = 0 -> Ul(<<KeyedItem("a"), KeyedItem("b")>>)
              [] props = 1 -> Ul(<<KeyedItem("b"), KeyedItem("a")>>)
              [] props = 2 -> Ul(<<KeyedLi("a"), KeyedLi("b")>>)
              [] props = 3 -> Ul(<<KeyedLi("b"), KeyedLi("a")>>)
              [] props = 4 -> Ul(<<Comp("Other", StrKey("a"), 0), KeyedItem("b")>>)
              [] props = 6 -> Ul(<<El("p", StrKey("a"), {}, Arr(<<Str("a")>>))>>)
              [] OTHER -> Ul(<<Comp("Other", UndefKey, 0)>>)
      [] ctor = "Item" -> El("li", UndefKey, {}, Arr(<<Str("item")>>))
      [] ctor = "Other" -> Comp("Item", UndefKey, 0)
      [] ctor = "Switch" ->
            IF props = 0 THEN Comp("Item", UndefKey, 0) ELSE Comp("Other", UndefKey, 0)
      [] ctor = "Tab" ->
            IF props = 0 THEN Comp("Item", UndefKey, 0) ELSE Comp("Faulty", UndefKey, 0)
      [] ctor = "Panel" ->
            El("div", UndefKey, {}, Arr(<<Comp("Fragile", UndefKey, props)>>))
      [] ctor = "Page" ->
            IF props = 0 THEN Ul(<<Comp("Item", UndefKey, 0)>>)
            ELSE El("p", UndefKey, {}, Arr(<<Str("empty")>>))
      [] ctor = "Boundary" ->
            El("div", UndefKey, {}, Arr(<<Comp("Thrower", UndefKey, props)>>))
      [] ctor = "Label" ->
            IF props = 0 THEN Str("label") ELSE El("b", UndefKey, {}, Arr(<<Str("label")>>))
      [] ctor = "Input" ->
            El("input", UndefKey, IF props = 1 THEN {<<"ref", "myInput">>} ELSE {}, Undefined)
      [] OTHER -> El("b", UndefKey, {}, Arr(<<Str("ok")>>))

\* whether the component's render throws for these props
RenderThrows(ctor, props) ==
    (ctor \in {"Thrower", "Fragile"} /\ props = 1) \/ ctor = "Faulty"
Thrown == "boom"

\* the description the component's error callback returns
ErrorOut(ctor) ==
    El(IF ctor = "Faulty" THEN "li" ELSE "p", UndefKey, {}, Arr(<<Str("error")>>))

\* the props each constructor's components are given
PropsOf(ctor) ==
    CASE ctor \in {"Frag", "Outer", "Parent", "Switch", "Boundary", "Thrower", "Input",
                    "Tab", "Page", "Panel", "Fragile", "Label"} -> {0, 1}
      [] ctor = "List" -> 0..6
      [] OTHER -> {0}

-----------------------------------------------------------------------------
(* Lifecycle coordination.                                                 *)

\* a callback invocation: which callback, on which state and instance, with
\* which props, and where args.element.node pointed at that moment; the
\* log also records a constructor call ("construct") and the replacement
\* of a component state by one of another constructor ("replace")
Event(ev, w, sid, previousNode, value) ==
    LET s == w.cs[sid]
        node == w.insts[s.inst].node
    IN  [ev |-> ev, state |-> sid, inst |-> s.inst, props |-> s.props, node |-> node,
         attached |-> InDocument(w.dom, node),
         forgo |-> IF node = NoNode THEN NoState ELSE getForgoState(w, node),
         previousNode |-> previousNode, value |-> value]
Log(w, e) == [w EXCEPT !.log = Append(@, e)]

RECURSIVE unmountComponents(_, _, _)
unmountComponents(w, states, from) ==
    IF from >= Len(states) THEN w
    ELSE LET sid == states[from + 1]
         IN  unmountComponents(IF HasUnmount(w.cs[sid].ctor)
                               THEN Log(w, Event("unmount", w, sid, NoNode, NoErr))
                               ELSE w,
                               states, from + 1)

RECURSIVE mountComponents(_, _, _)
mountComponents(w, states, from) ==
    IF from >= Len(states) THEN w
    ELSE LET sid == states[from + 1]
         IN  mountComponents(IF HasMount(w.cs[sid].ctor)
                             THEN Log(w, Event("mount", w, sid, NoNode, NoErr))
                             ELSE w,
                             states, from + 1)

\* a comparison of stacks that finds every state incompatible
findIndexOfFirstIncompatibleState_None(w, newStates, oldStates) == 0

findIndexOfFirstIncompatibleState(w, newStates, oldStates) ==
    LET compatible(i) == /\ i <= Len(newStates)
                         /\ i <= Len(oldStates)
                         /\ w.cs[oldStates[i]].ctor = w.cs[newStates[i]].ctor
        stops == {i \in 1..(Len(newStates) + 1) : ~compatible(i)}
    IN  (CHOOSE i \in stops : \A j \in stops : i <= j) - 1

\* state.args.element.node = node, for each of the states
RECURSIVE setElementNode(_, _, _)
setElementNode(w, states, node) ==
    IF states = << >> THEN w
    ELSE setElementNode([w EXCEPT !.insts[w.cs[Head(states)].inst].node = node],
                        Tail(states), node)

\* a forEach that hands every afterRender the node just attached
RECURSIVE runAfterRender_NewNode(_, _, _, _)
runAfterRender_NewNode(w, pendingAttachStates, previousNodes, i) ==
    IF i > Len(pendingAttachStates) THEN w
    ELSE LET sid == pendingAttachStates[i]
         IN  runAfterRender_NewNode(
                 IF HasAfterRender(w.cs[sid].ctor)
                 THEN Log(w, Event("afterRender", w, sid, w.insts[w.cs[sid].inst].node, NoErr))
                 ELSE w,
                 pendingAttachStates, previousNodes, i + 1)

\* the forEach at the end of attachProps
RECURSIVE runAfterRender(_, _, _, _)
runAfterRender(w, pendingAttachStates, previousNodes, i) ==
    IF i > Len(pendingAttachStates) THEN w
    ELSE LET sid == pendingAttachStates[i]
         IN  runAfterRender(IF HasAfterRender(w.cs[sid].ctor)
                            THEN Log(w, Event("afterRender", w, sid, previousNodes[i], NoErr))
                            ELSE w,
                            pendingAttachStates, previousNodes, i + 1)

attachProps(w, forgoNode, node, pendingAttachStates) ==
    LET instOf(i) == w.cs[pendingAttachStates[i]].inst
        previousNodes ==
            [i \in 1..Len(pendingAttachStates) |->
                IF HasAfterRender(w.cs[pendingAttachStates[i]].ctor)
                THEN w.insts[instOf(i)].node ELSE NoNode]
    IN  With(setElementNode(w, pendingAttachStates, node), LAMBDA w1 :
          LET currentState == getForgoState(w1, node)
              cleared(a) == IF /\ currentState.has /\ currentState.hasProps
                               /\ \E e \in currentState.props :
                                     e[1] = a /\ e \notin forgoNode.props
                            THEN "undefined" ELSE w1.dom[node].attrs[a]
              assigned(a) == IF \E e \in forgoNode.props : e[1] = a
                             THEN (CHOOSE e \in forgoNode.props : e[1] = a)[2]
                             ELSE cleared(a)
          IN  runAfterRender(
                  IF isForgoElement(forgoNode)
                  THEN [w1 EXCEPT !.dom[node].attrs = [id |-> assigned("id")],
                                  !.dom[node].forgo =
                                      [has |-> TRUE, key |-> forgoNode.key,
                                       hasProps |-> TRUE, props |-> forgoNode.props,
                                       components |-> pendingAttachStates]]
                  ELSE setForgoState(w1, node,
                           [has |-> TRUE, key |-> UndefKey, hasProps |-> FALSE,
                            props |-> {}, components |-> pendingAttachStates]),
                  pendingAttachStates, previousNodes, 1))

\* a call of syncStateAndProps as observed: the node whose state was read,
\* whether it had one, the old and the new stack, and the entries of the
\* log that unmountComponents and mountComponents wrote
\* args.element.node of each of the states
RECURSIVE ElementNodes(_, _)
ElementNodes(w, states) ==
    IF states = << >> THEN << >>
    ELSE <<w.insts[w.cs[Head(states)].inst].node>> \o ElementNodes(w, Tail(states))

Synced(w, before, forgoNode, newNode, targetNode, old, pendingAttachStates, first) ==
    [w EXCEPT !.syncs = Append(@, [target |-> targetNode, had |-> old.has,
                                   old |-> old.components, new |-> pendingAttachStates,
                                   node |-> newNode,
                                   element |-> isForgoElement(forgoNode),
                                   props |-> IF isForgoElement(forgoNode)
                                             THEN forgoNode.props ELSE {},
                                   previous |-> ElementNodes(before, pendingAttachStates),
                                   entered |-> Len(before.log) + 1,
                                   first |-> first, last |-> Len(w.log)])]

syncStateAndProps(w, forgoNode, newNode, targetNode, pendingAttachStates) ==
    LET old == getForgoState(w, targetNode)
        oldComponentStates == old.components
    IN  With(attachProps(w, forgoNode, newNode, pendingAttachStates), LAMBDA w1 :
          Synced(IF old.has
                 THEN With(findIndexOfFirstIncompatibleState(w1, pendingAttachStates,
                                                             oldComponentStates),
                           LAMBDA indexOfFirstIncompatibleState :
                             mountComponents(
                                 unmountComponents(w1, oldComponentStates,
                                                   indexOfFirstIncompatibleState),
                                 pendingAttachStates, indexOfFirstIncompatibleState))
                 ELSE mountComponents(w1, pendingAttachStates, 0),
                 w, forgoNode, newNode, targetNode, old, pendingAttachStates,
                 Len(w1.log) + 1))

\* unloadNodes that detaches the nodes without unmounting what is on them
unloadNodes_NoUnmount(w, nodes) ==
    IF nodes = << >> THEN w
    ELSE LET removeAll[i \in 0..Len(nodes)] ==
                 IF i = 0 THEN w ELSE remove(removeAll[i - 1], nodes[i])
         IN  removeAll[Len(nodes)]

RECURSIVE unloadNodes(_, _)
unloadNodes(w, nodes) ==
    IF nodes = << >> THEN w
    ELSE LET node == Head(nodes)
             state == getForgoState(w, node)
         IN  unloadNodes(remove(IF state.has
                                THEN unmountComponents(w, state.components, 0)
                                ELSE w,
                                node),
                         Tail(nodes))

-----------------------------------------------------------------------------
(* Candidate matcher.                                                      *)

TypeError == "TypeError"
HierarchyRequestError == "HierarchyRequestError"

NotFound == [found |-> FALSE, index |-> -1, err |-> NoErr]
Found(i) == [found |-> TRUE, index |-> i, err |-> NoErr]

\* nodes[i] is undefined past the end of the list: reading its state or
\* its nodeType is a TypeError
RECURSIVE findReplacementCandidateForDOMElement(_, _, _, _, _)
findReplacementCandidateForDOMElement(w, forgoElement, nodes, searchFrom, length) ==
    IF length <= 0 THEN NotFound
    ELSE LET node == At(nodes, searchFrom)
         IN  IF node = NoNode THEN [NotFound EXCEPT !.err = TypeError]
             ELSE IF Truthy(forgoElement.key)
                  THEN IF getForgoState(w, node).key = forgoElement.key
                       THEN Found(searchFrom)
                       ELSE findReplacementCandidateForDOMElement(
                                w, forgoElement, nodes, searchFrom + 1, length - 1)
                  ELSE IF /\ w.dom[node].nodeType = ELEMENT_NODE_TYPE
                          /\ ToLowerCase(w.dom[node].tagName) = forgoElement.type
                       THEN Found(searchFrom)
                       ELSE findReplacementCandidateForDOMElement(
                                w, forgoElement, nodes, searchFrom + 1, length - 1)

RECURSIVE findReplacementCandidateForCustomComponent(_, _, _, _, _)
findReplacementCandidateForCustomComponent(w, forgoElement, nodes, searchFrom, length) ==
    IF length <= 0 THEN NotFound
    ELSE LET node == At(nodes, searchFrom)
             stateOnNode == getForgoState(w, node)
         IN  IF node = NoNode THEN [NotFound EXCEPT !.err = TypeError]
             ELSE IF /\ stateOnNode.has
                     /\ Len(stateOnNode.components) > 0
                     /\ IF Truthy(forgoElement.key)
                        THEN w.cs[stateOnNode.components[1]].key = forgoElement.key
                        ELSE w.cs[stateOnNode.components[1]].ctor = forgoElement.type
                  THEN Found(searchFrom)
                  ELSE findReplacementCandidateForCustomComponent(
                           w, forgoElement, nodes, searchFrom + 1, length - 1)

-----------------------------------------------------------------------------
(* The renderers.  Each returns [w, nodes, err]: the world after it, the   *)
(* live nodes it produced (RenderResult) and the value it threw (NoErr     *)
(* when it returned).                                                      *)

Ok(w, nodes) == [w |-> w, nodes |-> nodes, err |-> NoErr]
Fail(w, e) == [w |-> w, nodes |-> << >>, err |-> e]

\* the component-state stacks on the nodes, in the order of the nodes
RECURSIVE StacksOf(_, _)
StacksOf(w, nodes) ==
    IF nodes = << >> THEN << >>
    ELSE <<getForgoState(w, Head(nodes)).components>> \o StacksOf(w, Tail(nodes))

\* a found match as observed: before is the world when the search ran, w
\* the world after the nodes before the match were unloaded, targetNode
\* the node the renderer then works on
Matched(w, before, forgoElement, parentElement, start, index, targetNode) ==
    LET nodes == childNodes(before, parentElement)
        unloaded == Slice(nodes, start, index)
    IN  [w EXCEPT !.matches =
            Append(@, [element |-> isForgoDOMElement(forgoElement),
                       type |-> forgoElement.type,
                       tagName |-> before.dom[At(nodes, index)].tagName,
                       parent |-> parentElement, start |-> start, index |-> index,
                       matched |-> At(nodes, index), unloaded |-> unloaded,
                       stacks |-> StacksOf(before, unloaded),
                       detached |-> \A k \in 1..Len(unloaded) :
                                      w.dom[unloaded[k]].parentNode = NoNode,
                       atStart |-> At(childNodes(w, parentElement), start),
                       first |-> Len(before.log) + 1, last |-> Len(w.log),
                       target |-> targetNode])]

\* NodeInsertionOptions
Detached == [type |-> "detached", parentElement |-> NoNode, currentNodeIndex |-> 0,
             length |-> 0]
Search(parentElement, currentNodeIndex, length) ==
    [type |-> "search", parentElement |-> parentElement,
     currentNodeIndex |-> currentNodeIndex, length |-> length]

\* component.render(props, args) is called: the callback is logged, with
\* the value it throws, and the test script's Component increments the
\* script's counter
CallRender(w, sid) ==
    Log([w EXCEPT !.counter = IF w.cs[sid].ctor = "Component" THEN @ + 1 ELSE @],
        Event("render", w, sid, NoNode,
              IF RenderThrows(w.cs[sid].ctor, w.cs[sid].props) THEN Thrown ELSE NoErr))

RECURSIVE internalRender(_, _, _, _)
RECURSIVE renderArrayFrom(_, _, _, _, _, _, _)
RECURSIVE renderChildrenFrom(_, _, _, _)
RECURSIVE renderDOMElementChildNodes(_, _, _)
RECURSIVE addNewDOMElement(_, _, _, _, _)
RECURSIVE renderDOMElement(_, _, _, _)
RECURSIVE withErrorBoundary(_, _, _, _, _)
RECURSIVE addNewComponent(_, _, _, _)
RECURSIVE renderExistingComponent(_, _, _, _, _)
RECURSIVE renderCustomComponent(_, _, _, _)
RECURSIVE renderComponentAndRemoveStaleNodes(_, _, _, _, _)

\* a renderText over a non-empty window as observed: before is the world
\* when it was called, w the world when it returned
Texted(w, before, parentElement, targetNode, textNode) ==
    [w EXCEPT !.texts =
        Append(@, [parent |-> parentElement, target |-> targetNode,
                   targetType |-> before.dom[targetNode].nodeType,
                   textNode |-> textNode,
                   fresh |-> textNode > Len(before.dom),
                   before |-> childNodes(before, parentElement),
                   after |-> childNodes(w, parentElement),
                   targetParent |-> w.dom[targetNode].parentNode])]

renderText(w, forgoNode, nodeInsertionOptions, pendingAttachStates) ==
    With(createTextNode(w, stringOfPrimitiveNode(forgoNode)), LAMBDA w0 :
      LET textNode == Created(w0)
          parentElement == nodeInsertionOptions.parentElement
          index == nodeInsertionOptions.currentNodeIndex
          targetNode == At(childNodes(w0, parentElement), index)
      IN  IF nodeInsertionOptions.type = "detached"
          THEN Ok(syncStateAndProps(w0, forgoNode, textNode, textNode,
                                    pendingAttachStates),
                  <<textNode>>)
          ELSE IF nodeInsertionOptions.length # 0
          THEN IF targetNode = NoNode THEN Fail(w0, TypeError)
               ELSE IF w0.dom[targetNode].nodeType = TEXT_NODE_TYPE
               THEN Ok(Texted(replaceWith(
                                  syncStateAndProps(w0, forgoNode, textNode, targetNode,
                                                    pendingAttachStates),
                                  targetNode, textNode),
                              w, parentElement, targetNode, textNode),
                       <<textNode>>)
               ELSE Ok(Texted(insertBefore(
                                  syncStateAndProps(w0, forgoNode, textNode, textNode,
                                                    pendingAttachStates),
                                  parentElement, textNode, targetNode),
                              w, parentElement, targetNode, textNode),
                       <<textNode>>)
          ELSE With(syncStateAndProps(w0, forgoNode, textNode, textNode,
                                      pendingAttachStates),
                    LAMBDA synced :
                      IF w0.dom[parentElement].nodeType # ELEMENT_NODE_TYPE
                      THEN Fail(synced, TypeError)
                      ELSE IF Len(childNodes(w0, parentElement)) = 0 \/ index = 0
                      THEN Ok(prepend(synced, parentElement, textNode), <<textNode>>)
                      ELSE Ok(insertBefore(synced, parentElement, textNode, targetNode),
                              <<textNode>>)))

\* the for loop of renderDOMElementChildNodes; nodes collects what
\* internalRender returned for the children, fromNull what it returned for
\* children that are null or undefined
renderChildrenFrom(w, forgoChildren, parentElement, currentChildNodeIndex) ==
    IF forgoChildren = << >>
    THEN [w |-> w, index |-> currentChildNodeIndex, err |-> NoErr, nodes |-> << >>,
          fromNull |-> << >>]
    ELSE With(internalRender(
                  w, Head(forgoChildren),
                  Search(parentElement, currentChildNodeIndex,
                         Len(childNodes(w, parentElement)) - currentChildNodeIndex),
                  << >>),
              LAMBDA r :
                IF r.err # NoErr
                THEN [w |-> r.w, index |-> currentChildNodeIndex, err |-> r.err,
                      nodes |-> << >>, fromNull |-> << >>]
                ELSE With(renderChildrenFrom(r.w, Tail(forgoChildren), parentElement,
                                             currentChildNodeIndex + Len(r.nodes)),
                          LAMBDA rest :
                            [rest EXCEPT !.nodes = r.nodes \o @,
                                         !.fromNull =
                                             IF Head(forgoChildren).t = "prim"
                                                /\ Head(forgoChildren).pt \in {"undefined", "null"}
                                             THEN r.nodes \o @ ELSE @]))

\* a completed renderDOMElementChildNodes as observed: before is the world
\* after the loop, w the world after the remaining nodes were unloaded
Reconciled(w, before, parentElement, nodes, fromNull, stale) ==
    [w EXCEPT !.reconciled =
        Append(@, [parent |-> parentElement, produced |-> nodes, fromNull |-> fromNull,
                   children |-> childNodes(w, parentElement), stale |-> stale,
                   stacks |-> StacksOf(before, stale),
                   detached |-> \A k \in 1..Len(stale) : w.dom[stale[k]].parentNode = NoNode,
                   first |-> Len(before.log) + 1, last |-> Len(w.log)])]

renderDOMElementChildNodes(w, forgoElement, parentElement) ==
    LET forgoChildrenObj == forgoElement.children
        forgoChildren ==
            flatten(SelectSeq(IF forgoChildrenObj.t = "arr"
                              THEN forgoChildrenObj.items ELSE <<forgoChildrenObj>>,
                              LAMBDA x : ~(x.t = "prim" /\ x.pt \in {"undefined", "null"})))
    IN  With(renderChildrenFrom(w, forgoChildren, parentElement, 0), LAMBDA r :
          IF r.err # NoErr THEN [w |-> r.w, err |-> r.err]
          ELSE LET stale == Slice(childNodes(r.w, parentElement), r.index,
                                  Len(childNodes(r.w, parentElement)))
               IN  [w |-> Reconciled(unloadNodes(r.w, stale), r.w, parentElement, r.nodes,
                                     r.fromNull, stale),
                    err |-> NoErr])

\* if (forgoElement.props.ref) forgoElement.props.ref.value = newElement
NoRefs == [myInput |-> NoNode]
HasRef(forgoElement) == \E e \in forgoElement.props : e[1] = "ref"
RefOf(forgoElement) == (CHOOSE e \in forgoElement.props : e[1] = "ref")[2]
setRefValue(w, forgoElement, newElement) ==
    IF HasRef(forgoElement)
    THEN [w EXCEPT !.refs[RefOf(forgoElement)] = newElement]
    ELSE w

addNewDOMElement(w, forgoElement, pendingAttachStates, parentElement, oldNode) ==
    With(setRefValue(createElement(w, forgoElement.type), forgoElement, Len(w.dom) + 1), LAMBDA w0 :
      LET newElement == Created(w0)
      IN  IF w0.dom[parentElement].nodeType # ELEMENT_NODE_TYPE
          THEN Fail(w0, HierarchyRequestError)
          ELSE With(renderDOMElementChildNodes(
                        syncStateAndProps(
                            insertBefore(w0, parentElement, newElement, oldNode),
                            forgoElement, newElement, newElement, pendingAttachStates),
                        forgoElement, newElement),
                    LAMBDA r :
                      IF r.err # NoErr THEN Fail(r.w, r.err) ELSE Ok(r.w, <<newElement>>)))

renderDOMElement(w, forgoElement, nodeInsertionOptions, pendingAttachStates) ==
    IF nodeInsertionOptions.type = "detached"
    THEN With(createElement(w, forgoElement.type), LAMBDA w0 :
           LET newElement == Created(w0)
           IN  With(renderDOMElementChildNodes(
                        syncStateAndProps(w0, forgoElement, newElement, newElement,
                                          pendingAttachStates),
                        forgoElement, newElement),
                    LAMBDA r :
                      IF r.err # NoErr THEN Fail(r.w, r.err) ELSE Ok(r.w, <<newElement>>)))
    ELSE LET parentElement == nodeInsertionOptions.parentElement
             index == nodeInsertionOptions.currentNodeIndex
             nodes == childNodes(w, parentElement)
         IN  IF nodeInsertionOptions.length # 0
             THEN With(findReplacementCandidateForDOMElement(
                           w, forgoElement, nodes, index, nodeInsertionOptions.length),
                       LAMBDA searchResult :
                    IF searchResult.err # NoErr THEN Fail(w, searchResult.err)
                    ELSE IF searchResult.found
                    THEN With(unloadNodes(w, Slice(nodes, index, searchResult.index)),
                              LAMBDA w0 :
                           \* childNodes is live: the index is read after the removal
                           LET targetNode == At(childNodes(w0, parentElement),
                                                searchResult.index)
                               w1 == Matched(w0, w, forgoElement, parentElement, index,
                                             searchResult.index, targetNode)
                           IN  IF targetNode = NoNode THEN Fail(w1, TypeError)
                               ELSE With(renderDOMElementChildNodes(
                                             syncStateAndProps(w1, forgoElement, targetNode,
                                                               targetNode,
                                                               pendingAttachStates),
                                             forgoElement, targetNode),
                                         LAMBDA r :
                                           IF r.err # NoErr THEN Fail(r.w, r.err)
                                           ELSE Ok(r.w, <<targetNode>>)))
                    ELSE addNewDOMElement(w, forgoElement, pendingAttachStates,
                                          parentElement, At(nodes, index)))
             ELSE addNewDOMElement(w, forgoElement, pendingAttachStates,
                                   parentElement, At(nodes, index))

\* try { return exec() } catch (error) { ... }: r is what exec() did
withErrorBoundary(forgoElement, nodeInsertionOptions, statesToAttach, sid, r) ==
    IF r.err = NoErr THEN r
    ELSE IF HasError(r.w.cs[sid].ctor)
    THEN internalRender(Log(r.w, Event("error", r.w, sid, NoNode, r.err)),
                        ErrorOut(r.w.cs[sid].ctor), nodeInsertionOptions, statesToAttach)
    ELSE r

addNewComponent(w, forgoElement, nodeInsertionOptions, pendingAttachStates) ==
    LET componentIndex == Len(pendingAttachStates)
        ctor == forgoElement.type
        inst == Len(w.insts) + 1
        newComponentState == Len(w.cs) + 1
        statesToAttach == Append(pendingAttachStates, newComponentState)
        insertionOptions ==
            IF nodeInsertionOptions.type = "detached" THEN nodeInsertionOptions
            ELSE Search(nodeInsertionOptions.parentElement,
                        nodeInsertionOptions.currentNodeIndex, 0)
    IN  With([w EXCEPT !.insts = Append(@, [ctor |-> ctor, node |-> NoNode,
                                             componentIndex |-> componentIndex])],
             LAMBDA w1 :
          IF ~HasRender(ctor)
          THEN Fail(w1, "component constructor must return an object having a render() function.")
          ELSE With([w1 EXCEPT !.cs = Append(@, [key |-> forgoElement.key, ctor |-> ctor,
                                                  inst |-> inst,
                                                  props |-> forgoElement.props,
                                                  numNodes |-> 0])],
                    LAMBDA w2 :
                 With(CallRender(
                          Log(w2, [Event("construct", w2, newComponentState, NoNode, NoErr)
                                      EXCEPT !.state = 0]),
                          newComponentState),
                      LAMBDA w4 :
                   withErrorBoundary(
                       forgoElement, nodeInsertionOptions, statesToAttach,
                       newComponentState,
                       IF RenderThrows(ctor, forgoElement.props) THEN Fail(w4, Thrown)
                       ELSE With(internalRender(
                                     w4, RenderOut(ctor, forgoElement.props, w4.counter),
                                     insertionOptions, statesToAttach),
                                 LAMBDA renderResult :
                              IF renderResult.err # NoErr THEN renderResult
                              ELSE Ok([renderResult.w EXCEPT
                                          !.cs[newComponentState].numNodes =
                                              Len(renderResult.nodes),
                                          !.insts[inst].node =
                                              IF Len(renderResult.nodes) > 1
                                              THEN renderResult.nodes[1] ELSE @],
                                      renderResult.nodes))))))

renderExistingComponent(w, forgoElement, nodeInsertionOptions, pendingAttachStates, componentState) ==
    LET old == w.cs[componentState]
        update == ~HasShouldUpdate(old.ctor)
                  \/ ShouldUpdate(old.ctor, forgoElement.props, old.props)
        newComponentState == Len(w.cs) + 1
        statesToAttach == Append(pendingAttachStates, newComponentState)
    IN  With(IF HasShouldUpdate(old.ctor)
             THEN Log(w, Event("shouldUpdate", w, componentState, NoNode,
                               IF update THEN "true" ELSE "false"))
             ELSE w,
             LAMBDA w0 :
          IF update
          THEN With(CallRender(
                        [w0 EXCEPT !.cs = Append(@, [old EXCEPT
                                                        !.props = forgoElement.props])],
                        newComponentState),
                    LAMBDA w2 :
                 IF RenderThrows(old.ctor, forgoElement.props)
                 THEN Fail(w2, Thrown)      \* render is called before the try block
                 ELSE withErrorBoundary(
                          forgoElement, nodeInsertionOptions, statesToAttach,
                          newComponentState,
                          renderComponentAndRemoveStaleNodes(
                              w2, RenderOut(old.ctor, forgoElement.props, w2.counter),
                              Search(nodeInsertionOptions.parentElement,
                                     nodeInsertionOptions.currentNodeIndex,
                                     w2.cs[newComponentState].numNodes),
                              statesToAttach, newComponentState)))
          ELSE LET allNodes == childNodes(w0, nodeInsertionOptions.parentElement)
                   indexOfNode == FindIndex(allNodes, w0.insts[old.inst].node)
               IN  Ok(w0, Slice(allNodes, indexOfNode, indexOfNode + old.numNodes)))

renderCustomComponent(w, forgoElement, nodeInsertionOptions, pendingAttachStates) ==
    LET componentIndex == Len(pendingAttachStates)
        parentElement == nodeInsertionOptions.parentElement
        index == nodeInsertionOptions.currentNodeIndex
        nodes == childNodes(w, parentElement)
    IN  IF nodeInsertionOptions.type = "detached"
        THEN addNewComponent(w, forgoElement, nodeInsertionOptions, pendingAttachStates)
        ELSE IF nodeInsertionOptions.length # 0
        THEN With(findReplacementCandidateForCustomComponent(
                      w, forgoElement, nodes, index, nodeInsertionOptions.length),
                  LAMBDA searchResult :
               IF searchResult.err # NoErr THEN Fail(w, searchResult.err)
               ELSE IF searchResult.found
               THEN With(unloadNodes(w, Slice(nodes, index, searchResult.index)),
                         LAMBDA w0 :
                      LET targetNode == At(childNodes(w0, parentElement), index)
                          w1 == Matched(w0, w, forgoElement, parentElement, index,
                                        searchResult.index, targetNode)
                          state == getForgoState(w1, targetNode)
                          componentState == At(state.components, componentIndex)
                          haveCompatibleState ==
                              /\ componentState # NoNode
                              /\ w1.cs[componentState].ctor = forgoElement.type
                      IN  IF ~state.has THEN Fail(w1, "Missing state in node.")
                          ELSE IF haveCompatibleState
                          THEN renderExistingComponent(w1, forgoElement,
                                                       nodeInsertionOptions,
                                                       pendingAttachStates, componentState)
                          ELSE addNewComponent(
                                   IF componentState = NoNode THEN w1
                                   ELSE Log(w1, Event("replace", w1, componentState,
                                                      targetNode, forgoElement.type)),
                                   forgoElement, nodeInsertionOptions,
                                   pendingAttachStates))
               ELSE addNewComponent(w, forgoElement, nodeInsertionOptions,
                                    pendingAttachStates))
        ELSE addNewComponent(w, forgoElement, nodeInsertionOptions, pendingAttachStates)

renderComponentAndRemoveStaleNodes(w, forgoNode, insertionOptions, statesToAttach, componentState) ==
    LET parentElement == insertionOptions.parentElement
        totalNodesBeforeRender == Len(childNodes(w, parentElement))
    IN  With(internalRender(w, forgoNode, insertionOptions, statesToAttach),
             LAMBDA renderResult :
          IF renderResult.err # NoErr THEN renderResult
          ELSE LET totalNodesAfterRender ==
                       Len(childNodes(renderResult.w, parentElement))
                   numNodesRemoved ==
                       totalNodesBeforeRender + Len(renderResult.nodes)
                           - totalNodesAfterRender
                   newIndex == insertionOptions.currentNodeIndex + Len(renderResult.nodes)
                   nodesToRemove ==
                       Slice(childNodes(renderResult.w, parentElement), newIndex,
                             newIndex + renderResult.w.cs[componentState].numNodes
                                 - numNodesRemoved)
               IN  With(unloadNodes(renderResult.w, nodesToRemove), LAMBDA w2 :
                     Ok([w2 EXCEPT !.cs[componentState].numNodes = Len(renderResult.nodes),
                                   !.insts[w2.cs[componentState].inst].node =
                                       IF Len(renderResult.nodes) > 1
                                       THEN renderResult.nodes[1] ELSE @],
                        renderResult.nodes)))

\* the for loop of renderArray
renderArrayFrom(w, forgoNodes, nodeInsertionOptions, pendingAttachStates, currentNodeIndex, numNodes, allNodes) ==
    IF forgoNodes = << >> THEN Ok(w, allNodes)
    ELSE LET parentElement == nodeInsertionOptions.parentElement
             totalNodesBeforeRender == Len(childNodes(w, parentElement))
         IN  With(internalRender(w, Head(forgoNodes),
                                 Search(parentElement, currentNodeIndex, numNodes),
                                 pendingAttachStates),
                  LAMBDA r :
               LET totalNodesAfterRender == Len(childNodes(r.w, parentElement))
                   numNodesRemoved ==
                       totalNodesBeforeRender + Len(r.nodes) - totalNodesAfterRender
               IN  IF r.err # NoErr THEN r
                   ELSE renderArrayFrom(r.w, Tail(forgoNodes), nodeInsertionOptions,
                                        pendingAttachStates,
                                        currentNodeIndex + Len(r.nodes),
                                        numNodes - numNodesRemoved, allNodes \o r.nodes))

TopLevelArrayError == "Arrays and fragments cannot be rendered at the top level."

\* renderArray that renders the first entry of a detached array
renderArray_FirstEntry(w, forgoNodes, nodeInsertionOptions, pendingAttachStates) ==
    IF nodeInsertionOptions.type = "detached"
    THEN IF forgoNodes = << >> THEN Ok(w, << >>)
         ELSE internalRender(w, Head(forgoNodes), nodeInsertionOptions, pendingAttachStates)
    ELSE renderArrayFrom(w, forgoNodes, nodeInsertionOptions, pendingAttachStates,
                         nodeInsertionOptions.currentNodeIndex,
                         nodeInsertionOptions.length, << >>)

renderArray(w, forgoNodes, nodeInsertionOptions, pendingAttachStates) ==
    IF nodeInsertionOptions.type = "detached"
    THEN Fail(w, TopLevelArrayError)
    ELSE renderArrayFrom(w, forgoNodes, nodeInsertionOptions, pendingAttachStates,
                         nodeInsertionOptions.currentNodeIndex,
                         nodeInsertionOptions.length, << >>)

internalRender(w, forgoNode, nodeInsertionOptions, pendingAttachStates) ==
    IF forgoNode.t = "arr"
    THEN renderArray(w, forgoNode.items, nodeInsertionOptions, pendingAttachStates)
    ELSE IF ~isForgoElement(forgoNode)
    THEN renderText(w, forgoNode, nodeInsertionOptions, pendingAttachStates)
    ELSE IF isForgoDOMElement(forgoNode)
    THEN renderDOMElement(w, forgoNode, nodeInsertionOptions, pendingAttachStates)
    ELSE renderCustomComponent(w, forgoNode, nodeInsertionOptions, pendingAttachStates)

-----------------------------------------------------------------------------
(* Public entry points.                                                    *)

\* mount with a search window over all the children of the container
mount_FullWindow(w, forgoNode, container) ==
    IF container = NoNode THEN Fail(w, TypeError)
    ELSE IF w.dom[container].nodeType # ELEMENT_NODE_TYPE
    THEN Fail(w, "The container argument to mount() should be an HTML element.")
    ELSE internalRender(w, forgoNode,
                        Search(container, 0, Len(childNodes(w, container))), << >>)

\* container is the node the argument resolves to: NoNode for null and for
\* a selector that matches nothing, whose nodeType cannot be read
mount(w, forgoNode, container) ==
    IF container = NoNode THEN Fail(w, TypeError)
    ELSE IF w.dom[container].nodeType # ELEMENT_NODE_TYPE
    THEN Fail(w, "The container argument to mount() should be an HTML element.")
    ELSE internalRender(w, forgoNode, Search(container, 0, 0), << >>)

render(w, forgoNode) == internalRender(w, forgoNode, Detached, << >>)

\* node.parentElement: null unless the parent is an element
parentElementOf(w, node) ==
    LET p == w.dom[node].parentNode
    IN  IF p # NoNode /\ w.dom[p].nodeType = ELEMENT_NODE_TYPE THEN p ELSE NoNode

\* a ForgoElementArg, or undefined
NoElement == [defined |-> FALSE, node |-> NoNode, componentIndex |-> 0]
ElementArg(node, componentIndex) ==
    [defined |-> TRUE, node |-> node, componentIndex |-> componentIndex]

\* the body of rerender that always takes the stored props
rerenderComponent_StoredProps(w, element, props, parentElement, state, componentState) ==
    LET old == w.cs[componentState]
        effectiveProps == old.props
        update == ~HasShouldUpdate(old.ctor)
                  \/ ShouldUpdate(old.ctor, effectiveProps, old.props)
        newComponentState == Len(w.cs) + 1
        statesToAttach ==
            Append(Slice(state.components, 0, element.componentIndex), newComponentState)
    IN  With(IF HasShouldUpdate(old.ctor)
             THEN Log(w, Event("shouldUpdate", w, componentState, NoNode,
                               IF update THEN "true" ELSE "false"))
             ELSE w,
             LAMBDA w0 :
          LET allNodes == childNodes(w0, parentElement)
              nodeIndex == FindIndex(allNodes, element.node)
          IN  IF update
              THEN With(CallRender(
                            [w0 EXCEPT !.cs = Append(@, [old EXCEPT
                                                            !.props = effectiveProps])],
                            newComponentState),
                        LAMBDA w2 :
                     IF RenderThrows(old.ctor, effectiveProps)
                     THEN Fail(w2, Thrown)
                     ELSE renderComponentAndRemoveStaleNodes(
                              w2, RenderOut(old.ctor, effectiveProps, w2.counter),
                              Search(parentElement, nodeIndex, old.numNodes),
                              statesToAttach, newComponentState))
              ELSE Ok(w0, Slice(allNodes, nodeIndex, nodeIndex + old.numNodes)))

\* the body of rerender once the node, its parent element and its state are
\* there: componentState is state.components[element.componentIndex]
rerenderComponent(w, element, props, parentElement, state, componentState) ==
    LET old == w.cs[componentState]
        effectiveProps == IF props # NoProps THEN props ELSE old.props
        update == ~HasShouldUpdate(old.ctor)
                  \/ ShouldUpdate(old.ctor, effectiveProps, old.props)
        newComponentState == Len(w.cs) + 1
        statesToAttach ==
            Append(Slice(state.components, 0, element.componentIndex), newComponentState)
    IN  With(IF HasShouldUpdate(old.ctor)
             THEN Log(w, Event("shouldUpdate", w, componentState, NoNode,
                               IF update THEN "true" ELSE "false"))
             ELSE w,
             LAMBDA w0 :
          LET allNodes == childNodes(w0, parentElement)
              nodeIndex == FindIndex(allNodes, element.node)
          IN  IF update
              THEN With(CallRender(
                            [w0 EXCEPT !.cs = Append(@, [old EXCEPT
                                                            !.props = effectiveProps])],
                            newComponentState),
                        LAMBDA w2 :
                     IF RenderThrows(old.ctor, effectiveProps)
                     THEN Fail(w2, Thrown)
                     ELSE renderComponentAndRemoveStaleNodes(
                              w2, RenderOut(old.ctor, effectiveProps, w2.counter),
                              Search(parentElement, nodeIndex, old.numNodes),
                              statesToAttach, newComponentState))
              ELSE Ok(w0, Slice(allNodes, nodeIndex, nodeIndex + old.numNodes)))

\* rerender that returns nothing, instead of failing, for a node without a
\* parent element
rerender_IgnoresMissingParent(w, element, props) ==
    IF element.defined /\ element.node # NoNode
    THEN LET parentElement == parentElementOf(w, element.node)
             state == getForgoState(w, element.node)
             componentState == At(state.components, element.componentIndex)
         IN  IF parentElement # NoNode
             THEN IF state.has
                  THEN IF componentState = NoNode THEN Fail(w, TypeError)
                       ELSE rerenderComponent(w, element, props, parentElement, state,
                                              componentState)
                  ELSE Fail(w, "Missing forgo state on node.")
             ELSE Ok(w, << >>)
    ELSE Fail(w, "Missing node information in rerender() argument.")

rerender(w, element, props) ==
    IF element.defined /\ element.node # NoNode
    THEN LET parentElement == parentElementOf(w, element.node)
             state == getForgoState(w, element.node)
             componentState == At(state.components, element.componentIndex)
         IN  IF parentElement # NoNode
             THEN IF state.has
                  THEN IF componentState = NoNode THEN Fail(w, TypeError)
                       ELSE rerenderComponent(w, element, props, parentElement, state,
                                              componentState)
                  ELSE Fail(w, "Missing forgo state on node.")
             ELSE Fail(w, "Rerender was called on a node without a parent element.")
    ELSE Fail(w, "Missing node information in rerender() argument.")

-----------------------------------------------------------------------------
(* The applications: the descriptions handed to mount() and render().      *)

Apps == {"fragment", "guard", "list", "error", "pure", "text", "refs", "tabs",
         "panel"}

Plain ==
    El("div", UndefKey, {<<"id", "x">>},
       Arr(<<Str("hello"), El("span", UndefKey, {}, Str("a"))>>))
Nested ==
    El("div", UndefKey, {},
       Arr(<<Arr(<<Str("a"), Arr(<<El("b", UndefKey, {}, Undefined), Null>>)>>),
             Null, Num(7)>>))
Lis == Ul(<<KeyedLi("a"), Null, Arr(<<KeyedLi("b")>>)>>)
Pair == Arr(<<Div("1"), El("p", UndefKey, {}, Undefined)>>)

Descriptions(a) ==
    CASE a = "fragment" -> {Comp("Component", UndefKey, 0), Comp("Frag", UndefKey, 1),
                            Comp("Outer", UndefKey, 0), Comp("Outer", UndefKey, 1)}
      [] a = "guard" -> {Comp("Parent", UndefKey, 0), Comp("Host", UndefKey, 0)}
      [] a = "list" -> {Comp("List", UndefKey, 0), Comp("List", UndefKey, 2),
                        Comp("Switch", UndefKey, 0)}
      [] a = "error" -> {Comp("Boundary", UndefKey, 0), Comp("Boundary", UndefKey, 1),
                         Comp("Thrower", UndefKey, 1)}
      [] a = "text" -> {Comp("Label", UndefKey, 0), Comp("Label", UndefKey, 1), Str("text")}
      [] a = "refs" -> {Comp("Input", UndefKey, 0), Comp("Input", UndefKey, 1)}
      [] a = "tabs" -> {Comp("Tab", UndefKey, 0), Comp("Tab", UndefKey, 1),
                        Comp("Page", UndefKey, 0)}
      [] a = "panel" -> {Comp("Panel", UndefKey, 0), Comp("Panel", UndefKey, 1)}
      [] OTHER -> {Plain, Nested, Lis, Pair, Str("text")}

Containers == {Root, Stray, NoNode}

-----------------------------------------------------------------------------
(* The state machine: each action is one call of an entry point.           *)

World ==
    [dom |-> dom, cs |-> cs, insts |-> insts, counter |-> counter, refs |-> refs,
     log |-> << >>, syncs |-> << >>, matches |-> << >>, reconciled |-> << >>,
     texts |-> << >>]

NoOp == [name |-> "none", forgoNode |-> Null, container |-> NoNode, element |-> NoElement,
         props |-> NoProps, err |-> NoErr, nodes |-> << >>]

Commit(r, call) ==
    /\ dom' = r.w.dom
    /\ cs' = r.w.cs
    /\ insts' = r.w.insts
    /\ counter' = r.w.counter
    /\ refs' = r.w.refs
    /\ log' = r.w.log
    /\ syncs' = r.w.syncs
    /\ matches' = r.w.matches
    /\ reconciled' = r.w.reconciled
    /\ texts' = r.w.texts
    /\ op' = [call EXCEPT !.err = r.err, !.nodes = r.nodes]
    /\ prev' = [dom |-> dom, cs |-> cs, insts |-> insts, op |-> op]

Init ==
    /\ app \in Apps
    /\ dom = InitDom
    /\ cs = << >>
    /\ insts = << >>
    /\ counter = 0
    /\ refs = NoRefs
    /\ log = << >>
    /\ syncs = << >>
    /\ matches = << >>
    /\ reconciled = << >>
    /\ texts = << >>
    /\ op = NoOp
    /\ prev = [dom |-> InitDom, cs |-> << >>, insts |-> << >>, op |-> NoOp]
    /\ nCalls = 0

Mount ==
    /\ nCalls < MaxCalls
    /\ \E forgoNode \in Descriptions(app), container \in Containers :
          Commit(mount(World, forgoNode, container),
                 [NoOp EXCEPT !.name = "mount", !.forgoNode = forgoNode,
                              !.container = container])
    /\ nCalls' = nCalls + 1
    /\ UNCHANGED app

Render ==
    /\ nCalls < MaxCalls
    /\ \E forgoNode \in Descriptions(app) :
          Commit(render(World, forgoNode),
                 [NoOp EXCEPT !.name = "render", !.forgoNode = forgoNode])
    /\ nCalls' = nCalls + 1
    /\ UNCHANGED app

\* the handles a caller can hold: the args.element of every component
\* instance, no handle at all, and a handle made up for the container
Handles ==
    {NoElement, ElementArg(Root, 0)}
        \cup {ElementArg(insts[i].node, insts[i].componentIndex) : i \in 1..Len(insts)}

\* the props a caller passes with a handle: none, or props of the
\* component the handle was taken from
PropsFor(element) ==
    {NoProps} \cup UNION {PropsOf(insts[i].ctor) :
                             i \in {j \in 1..Len(insts) :
                                       /\ insts[j].node = element.node
                                       /\ insts[j].componentIndex = element.componentIndex
                                       /\ element.defined /\ element.node # Root}}

Rerender ==
    /\ nCalls < MaxCalls
    /\ \E element \in Handles :
          \E props \in PropsFor(element) :
              Commit(rerender(World, element, props),
                     [NoOp EXCEPT !.name = "rerender", !.element = element,
                                  !.props = props])
    /\ nCalls' = nCalls + 1
    /\ UNCHANGED app

Next == Mount \/ Render \/ Rerender

Spec == Init /\ [][Next]_vars

-----------------------------------------------------------------------------
(* Observations on the last entry-point call, used by the properties.      *)

Events == {log[k] : k \in 1..Len(log)}
Callbacks == {"render", "mount", "unmount", "afterRender"}

\* the component state the handle of the last rerender() resolved to in the
\* world before the call; NoNode when the call was no rerender() or the
\* handle resolved to nothing
TargetState ==
    IF op.name = "rerender" /\ op.element.defined /\ op.element.node # NoNode
    THEN IF parentElementOf(prev, op.element.node) # NoNode
         THEN At(prev.dom[op.element.node].forgo.components, op.element.componentIndex)
         ELSE NoNode
    ELSE NoNode

\* the nodes of the document d that carry the component state sid
LiveNodesOf(d, sid) ==
    {n \in 1..Len(d) :
        /\ InDocument(d, n)
        /\ \E j \in 1..Len(d[n].forgo.components) : d[n].forgo.components[j] = sid}

\* the nodes of the document that carry a state of the component instance
LiveNodesOfInst(inst) ==
    {n \in 1..Len(dom) :
        /\ InDocument(dom, n)
        /\ \E j \in 1..Len(dom[n].forgo.components) :
              cs[dom[n].forgo.components[j]].inst = inst}

Reverse(seq) == [i \in 1..Len(seq) |-> seq[Len(seq) + 1 - i]]

\* tag names, text contents and nesting of the subtree under a node
RECURSIVE ShapeOf(_, _)
ShapeOf(d, n) ==
    [tag |-> d[n].tagName, text |-> d[n].text,
     kids |-> [i \in 1..Len(d[n].childNodes) |-> ShapeOf(d, d[n].childNodes[i])]]

Nullish(f) == f.t = "prim" /\ f.pt \in {"undefined", "null"}

\* the same of a description of tagged elements and primitives: children in
\* order, nested arrays flattened, null and undefined dropped
RECURSIVE ExpectedShape(_)
ExpectedShape(f) ==
    IF f.t = "prim"
    THEN [tag |-> "#text", text |-> stringOfPrimitiveNode(f), kids |-> << >>]
    ELSE LET c == f.children
             items == SelectSeq(flatten(IF c.t = "arr" THEN c.items ELSE <<c>>),
                                LAMBDA x : ~Nullish(x))
         IN  [tag |-> ToUpperCase(f.type), text |-> "",
              kids |-> [i \in 1..Len(items) |-> ExpectedShape(items[i])]]

-----------------------------------------------------------------------------
(* C1: keyed reorder.                                                      *)

\* the pairs of List props whose renders hold the same keys in another order
ReorderedProps == {<<0, 1>>, <<1, 0>>, <<2, 3>>, <<3, 2>>}

\* the last call re-rendered a List, whose element held the two keyed
\* children, with the same keys in the other order
C1_Reorder ==
    /\ TargetState # NoNode
    /\ prev.cs[TargetState].ctor = "List"
    /\ <<prev.cs[TargetState].props, op.props>> \in ReorderedProps
    /\ Len(prev.dom[op.element.node].childNodes) = 2

\* C1: when an element's keyed children are re-rendered with the same keys
\* in a different order, the same live nodes are reused and end up in the
\* new order, and no mount or unmount callback fires for the entries.
C1_KeyedReorderKeepsNodes ==
    C1_Reorder =>
        /\ op.err = NoErr
        /\ dom[op.element.node].childNodes = Reverse(prev.dom[op.element.node].childNodes)
        /\ \A e \in Events : ~(e.ev \in {"mount", "unmount"} /\ insts[e.inst].ctor = "Item")

-----------------------------------------------------------------------------
(* C2: a re-rendered component is not unmounted.                           *)

\* C2: rerender() of a mounted component never invokes that component's own
\* unmount callback, whatever its render output changes to.
C2_RerenderNeverUnmountsItself ==
    TargetState # NoNode =>
        \A e \in Events : ~(e.ev = "unmount" /\ e.inst = prev.cs[TargetState].inst)

-----------------------------------------------------------------------------
(* C3: shouldUpdate returning false.                                       *)

\* C3: when shouldUpdate of a mounted component returns false in a pass, the
\* component's state (props, numNodes), its args.element and the live nodes
\* it occupies are as before the pass, and none of its render, mount,
\* unmount or afterRender callbacks is invoked in the pass.
C3_SkippedComponentUntouched ==
    \A e \in Events :
        (e.ev = "shouldUpdate" /\ e.value = "false") =>
            /\ cs[e.state] = prev.cs[e.state]
            /\ insts[e.inst] = prev.insts[e.inst]
            /\ LiveNodesOf(dom, e.state) = LiveNodesOf(prev.dom, e.state)
            /\ \A f \in Events : ~(f.inst = e.inst /\ f.ev \in Callbacks)

-----------------------------------------------------------------------------
(* C4: error boundaries.                                                   *)

\* a render threw in the last mount() or rerender() after the render of a
\* component with an error callback, its ancestor, ran in the same pass
C4_ThrowUnderBoundary ==
    /\ op.name \in {"mount", "rerender"}
    /\ \E i, j \in 1..Len(log) :
          /\ i < j
          /\ log[i].ev = "render" /\ HasError(insts[log[i].inst].ctor)
          /\ log[j].ev = "render" /\ log[j].value = Thrown

\* C4: if a render throws in a pass started by mount() or rerender() and an
\* ancestor in the pass has an error callback, the callback is invoked with
\* the thrown value, its description is rendered and nothing reaches the
\* caller.
C4_BoundaryCatches ==
    C4_ThrowUnderBoundary =>
        /\ op.err = NoErr
        /\ \E e \in Events : e.ev = "error" /\ e.value = Thrown
        /\ \E n \in 1..Len(dom) : InDocument(dom, n) /\ dom[n].tagName = "P"

-----------------------------------------------------------------------------
(* C5: a three-node fragment re-rendered to a single node.                 *)

\* whether the render of the component returns a description of one node
RECURSIVE RendersOneNode(_, _, _)
RendersOneNode(ctor, props, count) ==
    LET out == RenderOut(ctor, props, count)
    IN  out.t = "el" \/ (out.t = "comp" /\ RendersOneNode(out.type, out.props, count))

\* the last call was a rerender() of a component that occupied three live
\* nodes, its render was called and returned a description of one node
C5_Drift ==
    /\ TargetState # NoNode
    /\ prev.cs[TargetState].numNodes = 3
    /\ Cardinality(LiveNodesOf(prev.dom, TargetState)) = 3
    /\ \E e \in Events : e.ev = "render" /\ e.inst = prev.cs[TargetState].inst
    /\ RendersOneNode(prev.cs[TargetState].ctor,
                      IF op.props # NoProps THEN op.props ELSE prev.cs[TargetState].props,
                      counter)

\* C5: after a component that rendered a 3-node fragment is re-rendered to a
\* single node, the parent holds exactly one live node of the component in
\* place of the three, the nodes outside the span are kept in place, and the
\* component state's numNodes is 1.
C5_ArityDrift ==
    C5_Drift =>
        /\ op.err = NoErr
        /\ Len(op.nodes) = 1
        /\ LET p == parentElementOf(prev, op.element.node)
               before == prev.dom[p].childNodes
               span == LiveNodesOf(prev.dom, TargetState)
               new == At(dom[op.nodes[1]].forgo.components, op.element.componentIndex)
           IN  /\ dom[p].childNodes =
                      SelectSeq(before, LAMBDA n : n \notin span \/ n = op.nodes[1])
                   \/ /\ op.nodes[1] \notin span
                      /\ SelectSeq(dom[p].childNodes, LAMBDA n : n # op.nodes[1]) =
                             SelectSeq(before, LAMBDA n : n \notin span)
               /\ new # NoNode
               /\ cs[new].inst = prev.cs[TargetState].inst
               /\ cs[new].numNodes = 1
               /\ LiveNodesOfInst(cs[new].inst) = {op.nodes[1]}

-----------------------------------------------------------------------------
(* C6: replacement of a component by one of another constructor.           *)

\* the states of the stack on a node from a depth on
DeeperStates(d, node, depth) ==
    {d[node].forgo.components[j] : j \in (depth + 1)..Len(d[node].forgo.components)}

Unmounted(sid, from) ==
    HasUnmount(cs[sid].ctor) =>
        \E m \in from..Len(log) : log[m].ev = "unmount" /\ log[m].state = sid
Mounted(sid, from) ==
    HasMount(cs[sid].ctor) =>
        \E m \in from..Len(log) : log[m].ev = "mount" /\ log[m].state = sid

\* the k-th entry of the log is the replacement of a component state, found
\* by the matcher, by a new component of another constructor
Replaced(k) ==
    LET old == log[k]
        node == old.previousNode
        depth == insts[old.inst].componentIndex
        new == insts[log[k + 1].inst]
    IN  /\ \A sid \in DeeperStates(IF node <= Len(prev.dom) THEN prev.dom ELSE dom,
                                   node, depth) : Unmounted(sid, k)
        /\ log[k + 1].ev = "construct"
        /\ new.ctor = old.value
        /\ new.node # NoNode
        /\ InDocument(dom, new.node)
        /\ \A sid \in DeeperStates(dom, new.node, depth) : Mounted(sid, k)

\* the last call re-rendered a Switch to its other output, a component of
\* another constructor nested directly in it
C6_Switched ==
    /\ TargetState # NoNode
    /\ prev.cs[TargetState].ctor = "Switch"
    /\ op.props # NoProps
    /\ op.props # prev.cs[TargetState].props

\* C6: when a pass reaches a position whose previous component state has
\* another constructor than the new description, the unmount of the old
\* component and the mount of the new one are invoked in the pass, for that
\* position of the stack and for every deeper one.
C6_TypeMismatchReplaces ==
    /\ \A k \in 1..Len(log) : log[k].ev = "replace" => k < Len(log) /\ Replaced(k)
    /\ C6_Switched =>
          /\ \A sid \in DeeperStates(prev.dom, op.element.node,
                                     op.element.componentIndex + 1) : Unmounted(sid, 1)
          /\ Len(op.nodes) = 1
          /\ \A sid \in DeeperStates(dom, op.nodes[1],
                                     op.element.componentIndex + 1) : Mounted(sid, 1)
          /\ \E sid \in DeeperStates(dom, op.nodes[1], op.element.componentIndex + 1) :
                cs[sid].ctor \in {"Item", "Other"}
                   /\ cs[sid].ctor # cs[At(prev.dom[op.element.node].forgo.components,
                                           op.element.componentIndex + 1)].ctor

C6_Witness ==
    /\ op.err = NoErr
    /\ \E k \in 1..(Len(log) - 1) :
          /\ log[k].ev = "replace" /\ log[k].value = "Other"
          /\ insts[log[k].inst].ctor = "Item"
          /\ \E m \in k..Len(log) : log[m].ev = "unmount" /\ log[m].inst = log[k].inst
          /\ \E m \in k..Len(log) : log[m].ev = "mount" /\ log[m].inst = log[k + 1].inst

-----------------------------------------------------------------------------
(* C7: mounting twice.                                                     *)

\* the last two calls mounted the same description of tagged elements and
\* primitives on the container
C7_SecondMount ==
    /\ app = "pure"
    /\ op.name = "mount" /\ prev.op.name = "mount"
    /\ op.container = Root /\ prev.op.container = Root
    /\ op.forgoNode = prev.op.forgoNode
    /\ op.err = NoErr /\ prev.op.err = NoErr

\* C7 as stated: mounting the same pure-element description a second time
\* on the same container reuses the live nodes and creates none, so the
\* container's child list is unchanged by the second mount.
C7_RemountIdempotent ==
    C7_SecondMount =>
        /\ dom[Root].childNodes = prev.dom[Root].childNodes
        /\ Len(dom) = Len(prev.dom)

\* C7 amended: mount() searches an empty window: every mount of a
\* pure-element description creates new live nodes for it and inserts them,
\* in order, before the children the container already had, which are kept
\* as they were.
C7_MountPrepends ==
    (app = "pure" /\ op.name = "mount" /\ op.err = NoErr) =>
        /\ dom[op.container].childNodes = op.nodes \o prev.dom[op.container].childNodes
        /\ \A i \in 1..Len(op.nodes) : op.nodes[i] > Len(prev.dom)
        /\ \A n \in 1..Len(prev.dom) :
              /\ dom[n].forgo = prev.dom[n].forgo
              /\ n # op.container => dom[n] = prev.dom[n]

C7_Witness ==
    /\ C7_SecondMount
    /\ prev.dom[Root].childNodes # << >>
    /\ dom[Root].childNodes = op.nodes \o prev.dom[Root].childNodes
    /\ ShapeOf(dom, dom[Root].childNodes[1]) =
           ShapeOf(dom, prev.dom[Root].childNodes[1])

-----------------------------------------------------------------------------
(* C8: the detached render of a pure description.                          *)

\* C8: render() of a description of tagged elements and primitives returns
\* one detached node whose tag names, text contents and nesting are the
\* description's: children in order, nested arrays flattened, null and
\* undefined children dropped, every primitive one text node.
C8_RenderMatchesDescription ==
    (app = "pure" /\ op.name = "render" /\ op.forgoNode.t # "arr") =>
        /\ op.err = NoErr
        /\ Len(op.nodes) = 1
        /\ dom[op.nodes[1]].parentNode = NoNode
        /\ ShapeOf(dom, op.nodes[1]) = ExpectedShape(op.forgoNode)

-----------------------------------------------------------------------------
(* C9: the detached render of an array.                                    *)

\* C9: render() of an array description always fails with the "cannot be
\* rendered at the top level" error, and creates or attaches no node.
C9_DetachedArrayRejected ==
    (op.name = "render" /\ op.forgoNode.t = "arr") =>
        /\ op.err = TopLevelArrayError
        /\ op.nodes = << >>
        /\ dom = prev.dom
        /\ cs = prev.cs /\ insts = prev.insts
        /\ log = << >>

C9_Witness ==
    /\ op.name = "render"
    /\ op.forgoNode = Pair
    /\ op.err = TopLevelArrayError
    /\ Len(dom) = Len(prev.dom)

-----------------------------------------------------------------------------
(* C10: rerender() on a handle that cannot be re-rendered.                 *)

NoHandleNode == ~op.element.defined \/ op.element.node = NoNode
NoParent == ~NoHandleNode /\ parentElementOf(prev, op.element.node) = NoNode
NoAttachedState ==
    ~NoHandleNode /\ ~NoParent /\ ~prev.dom[op.element.node].forgo.has

\* C10: rerender() fails with the engine's configuration error and leaves
\* the live tree and every component state unchanged when the handle has no
\* node, the node has no parent, or the node carries no attached state.
C10_RerenderRejects ==
    (op.name = "rerender" /\ (NoHandleNode \/ NoParent \/ NoAttachedState)) =>
        /\ NoHandleNode => op.err = "Missing node information in rerender() argument."
        /\ NoParent => op.err = "Rerender was called on a node without a parent element."
        /\ NoAttachedState => op.err = "Missing forgo state on node."
        /\ dom = prev.dom
        /\ cs = prev.cs /\ insts = prev.insts
        /\ log = << >>

C10_Witness ==
    /\ op.name = "rerender"
    /\ NoParent
    /\ prev.dom[op.element.node].forgo.has
    /\ op.err = "Rerender was called on a node without a parent element."
    /\ dom = prev.dom

-----------------------------------------------------------------------------
(* C11: mount() on a container that is no element.                         *)

\* the two configuration errors of mount(); the second is followed by the
\* container's description
MountConfigurationErrors ==
    {"The container argument to mount() should be an HTML element.",
     "Mount was called on a non-element"}

\* the last call was mount() with a container that resolves to no element
C11_BadContainer ==
    /\ op.name = "mount"
    /\ \/ op.container = NoNode
       \/ prev.dom[op.container].nodeType # ELEMENT_NODE_TYPE

\* C11: mount() fails with one of the engine's two mount configuration
\* errors, and renders nothing, whenever the container is null, a selector
\* that matches nothing, or a node that is not an element.
C11_MountRejectsBadContainer ==
    C11_BadContainer =>
        /\ op.err \in MountConfigurationErrors
        /\ dom = prev.dom /\ cs = prev.cs /\ insts = prev.insts /\ log = << >>

-----------------------------------------------------------------------------
(* C12: the props of a rerender().                                         *)

\* the props rerender() takes for the component: the given ones, or the
\* stored ones when none are given
C12_EffectiveProps ==
    IF op.props # NoProps THEN op.props ELSE prev.cs[TargetState].props

\* the last call was a rerender() that got to render its component: the
\* handle resolved and no shouldUpdate held the render back
C12_Rerendered ==
    /\ TargetState # NoNode
    /\ HasShouldUpdate(prev.cs[TargetState].ctor) =>
          ShouldUpdate(prev.cs[TargetState].ctor, C12_EffectiveProps,
                       prev.cs[TargetState].props)

\* the first render the pass invoked
C12_FirstRender ==
    log[CHOOSE k \in 1..Len(log) :
            log[k].ev = "render" /\ \A j \in 1..(k - 1) : log[j].ev # "render"]

\* C12: rerender(handle) with props omitted calls the component's render
\* with the props of its previous render, rerender(handle, props) calls it
\* with the given props; when the pass completes, these are the stored
\* props of the component on its live nodes.
C12_RerenderProps ==
    C12_Rerendered =>
        /\ \E k \in 1..Len(log) : log[k].ev = "render"
        /\ C12_FirstRender.inst = prev.cs[TargetState].inst
        /\ C12_FirstRender.props = C12_EffectiveProps
        /\ op.err = NoErr =>
              \A i \in 1..Len(op.nodes) :
                 LET stack == dom[op.nodes[i]].forgo.components
                     sid == At(stack, op.element.componentIndex)
                 IN  /\ sid # NoNode
                     /\ cs[sid].inst = prev.cs[TargetState].inst
                     /\ cs[sid].props = C12_EffectiveProps

C12_Witness ==
    /\ C12_Rerendered
    /\ op.err = NoErr
    /\ op.props # NoProps
    /\ op.props # prev.cs[TargetState].props
    /\ Len(op.nodes) > 0
    /\ cs[At(dom[op.nodes[1]].forgo.components, op.element.componentIndex)].props
           = op.props
    /\ prev.op.name = "rerender" /\ prev.op.props = NoProps /\ prev.op.err = NoErr

(* C13: what a mount callback finds in args.element.node. *)

\* a pass over the live tree: a mount(), or a rerender() of a handle whose
\* node is in the document
C13_LivePass ==
    \/ op.name = "mount"
    \/ /\ op.name = "rerender" /\ op.element.defined
       /\ op.element.node \in 1..Len(prev.dom)
       /\ InDocument(prev.dom, op.element.node)

\* C13: in a pass over the live tree, every invocation of a mount callback
\* finds args.element.node set, and the node it names is in the document.
C13_MountSeesLiveNode ==
    C13_LivePass =>
        \A k \in 1..Len(log) :
           log[k].ev = "mount" => log[k].node # NoNode /\ log[k].attached

(* C14: mounting a component that renders a fragment of three elements. *)

C14_MountsFragment ==
    /\ op.name = "mount" /\ op.container = Root /\ op.forgoNode.t = "comp"
    /\ RenderOut(op.forgoNode.type, op.forgoNode.props, counter) = ThreeDivs

C14_DivShape(text) ==
    [tag |-> "DIV", text |-> "",
     kids |-> <<[tag |-> "#text", text |-> text, kids |-> << >>]>>]

\* C14: mount() of a component whose render returns three elements puts
\* exactly three new sibling nodes under the container, in the order of the
\* sequence and before the children the container had; the component's
\* state is on each of them with numNodes = 3, and args.element.node is the
\* first of them.
C14_FragmentMounted ==
    C14_MountsFragment =>
        /\ op.err = NoErr
        /\ Len(op.nodes) = 3
        /\ dom[Root].childNodes = op.nodes \o prev.dom[Root].childNodes
        /\ \A i \in 1..3 :
              /\ op.nodes[i] > Len(prev.dom)
              /\ ShapeOf(dom, op.nodes[i]) = C14_DivShape(ToString(i))
              /\ dom[op.nodes[i]].forgo.components = dom[op.nodes[1]].forgo.components
        /\ Len(dom[op.nodes[1]].forgo.components) = 1
        /\ LET state == cs[dom[op.nodes[1]].forgo.components[1]]
           IN  /\ state.ctor = op.forgoNode.type
               /\ state.numNodes = 3
               /\ insts[state.inst].node = op.nodes[1]

C14_Witness ==
    /\ C14_MountsFragment /\ Len(op.nodes) = 3
    /\ prev.dom[Root].childNodes # << >>
    /\ cs[dom[op.nodes[1]].forgo.components[1]].numNodes = 3
    /\ dom[Root].childNodes = op.nodes \o prev.dom[Root].childNodes

(* C15: element refs. *)

\* the last call was a completed pass that rendered Input's <input ref>
C15_RefRendered ==
    /\ op.name \in {"mount", "rerender"} /\ op.err = NoErr
    /\ \E k \in 1..Len(log) :
          /\ log[k].ev = "render" /\ cs[log[k].state].ctor = "Input"
          /\ HasRef(RenderOut("Input", log[k].props, counter))

\* C15: after a completed mount() or rerender() that rendered the element
\* description carrying the ref, the ref's value is the element the pass
\* returned for it, created or reused.
C15_RefAttached ==
    C15_RefRendered =>
        /\ Len(op.nodes) = 1
        /\ dom[op.nodes[1]].tagName = "INPUT"
        /\ refs.myInput = op.nodes[1]

(* C17: a matched node whose state has another constructor. *)

\* C17: when the matcher returned a node whose component state at the
\* current depth has another constructor than the description (a "replace"
\* entry of the log, followed by the construction of the new component),
\* the old state's unmount is invoked before the new component's mount.
C17_UnmountBeforeMount ==
    \A k \in 1..(Len(log) - 1) :
       log[k].ev = "replace" =>
          \A m \in (k + 1)..Len(log) :
             (log[m].ev = "mount" /\ log[m].inst = log[k + 1].inst) =>
                \E u \in (k + 1)..(m - 1) :
                   log[u].ev = "unmount" /\ log[u].state = log[k].state

(* C16: what a replacement of a node's component-state stack invokes. *)

\* the length of the longest common prefix of two stacks under equality of
\* constructors
C16_CommonPrefix(old, new) ==
    LET same(d) == /\ d <= Len(old) /\ d <= Len(new)
                   /\ \A i \in 1..d : cs[old[i]].ctor = cs[new[i]].ctor
    IN  CHOOSE d \in 0..Len(old) : same(d) /\ ~same(d + 1)

\* the unmount and mount invocations due for a replacement
C16_Due(old, new) ==
    LET d == C16_CommonPrefix(old, new)
        leaving == SelectSeq(SubSeq(old, d + 1, Len(old)),
                             LAMBDA sid : HasUnmount(cs[sid].ctor))
        coming == SelectSeq(SubSeq(new, d + 1, Len(new)),
                            LAMBDA sid : HasMount(cs[sid].ctor))
    IN  [i \in 1..Len(leaving) |-> <<"unmount", leaving[i]>>]
            \o [i \in 1..Len(coming) |-> <<"mount", coming[i]>>]

C16_Invoked(s) ==
    [i \in 1..(s.last + 1 - s.first) |->
        <<log[s.first + i - 1].ev, log[s.first + i - 1].state>>]

C18_Left ==
    {n \in 1..Len(prev.dom) : InDocument(prev.dom, n) /\ ~InDocument(dom, n)}

\* the component instances that were on those nodes and are on no node of
\* the document any more
C18_Gone ==
    UNION {{prev.cs[prev.dom[n].forgo.components[i]].inst :
               i \in 1..Len(prev.dom[n].forgo.components)} : n \in C18_Left}

\* C18: after a completed pass, every component whose node left the
\* document in the pass, removed itself or inside a removed subtree, and
\* that is on no node of the document any more, had its unmount invoked
\* in the pass.
C18_RemovedAreUnmounted ==
    (op.name \in {"mount", "rerender"} /\ op.err = NoErr) =>
        \A inst \in C18_Gone :
           (LiveNodesOfInst(inst) = {} /\ HasUnmount(insts[inst].ctor)) =>
               \E k \in 1..Len(log) : log[k].ev = "unmount" /\ log[k].inst = inst

(* C19: what happens around a found match. *)

RECURSIVE C19_Concat(_)
C19_Concat(stacks) ==
    IF stacks = << >> THEN << >> ELSE Head(stacks) \o C19_Concat(Tail(stacks))

\* the unmount invocations due for the nodes before the match
C19_Due(m) ==
    LET leaving == SelectSeq(C19_Concat(m.stacks), LAMBDA sid : HasUnmount(cs[sid].ctor))
    IN  [i \in 1..Len(leaving) |-> <<"unmount", leaving[i]>>]

\* C19: for every match found at index i of a window starting at s, the
\* siblings at s..i-1 had the components on them unmounted and are detached,
\* and the node the renderer then updates is the node that matched, which is
\* now at index s.
C19_MatchedNodeIsUpdated ==
    \A j \in 1..Len(matches) :
       /\ matches[j].detached
       /\ C16_Invoked(matches[j]) = C19_Due(matches[j])
       /\ matches[j].atStart = matches[j].matched
       /\ matches[j].target = matches[j].matched

(* C20: the tag of a reused element. *)

\* C20: every node the matcher hands to renderDOMElement for reuse has the
\* tag name of the description's type, keyed or not.
C20_ReusedTagMatches ==
    \A j \in 1..Len(matches) :
       matches[j].element => ToLowerCase(matches[j].tagName) = matches[j].type

-----------------------------------------------------------------------------
(* C21: what the candidate matcher returns. *)

\* descriptions handed to the matcher: with a string key, without a key,
\* and with the keys 0 and ""
C21_Keys == {UndefKey, StrKey("a"), StrKey("b"), StrKey(""), NumKey(0)}
C21_Descriptions ==
    {El("li", k, {}, Undefined) : k \in C21_Keys}
        \cup {Comp("Item", k, 0) : k \in C21_Keys}

\* the windows of the document: a parent, a start index and a length
C21_Windows ==
    UNION {{[parent |-> p, start |-> s, length |-> l] :
               s \in 0..(Len(dom[p].childNodes) - 1), l \in 1..Len(dom[p].childNodes)} :
           p \in {q \in 1..Len(dom) : dom[q].nodeType = ELEMENT_NODE_TYPE}}

\* whether the description matches the node, as stated: by key equality
\* when the description has a key of any value, by tag name or first
\* constructor otherwise
C21_MatchesNode(f, n) ==
    LET state == dom[n].forgo
        first == cs[state.components[1]]
    IN  IF isForgoDOMElement(f)
        THEN IF f.key # UndefKey
             THEN state.has /\ state.key = f.key
             ELSE /\ dom[n].nodeType = ELEMENT_NODE_TYPE
                  /\ ToLowerCase(dom[n].tagName) = ToLowerCase(f.type)
        ELSE /\ state.has /\ Len(state.components) > 0
             /\ IF f.key # UndefKey THEN first.key = f.key ELSE first.ctor = f.type

C21_Expected(f, win) ==
    LET nodes == dom[win.parent].childNodes
        hits == {i \in win.start..(win.start + win.length - 1) : C21_MatchesNode(f, nodes[i + 1])}
    IN  IF hits = {} THEN NotFound
        ELSE Found(CHOOSE i \in hits : \A j \in hits : i <= j)

C21_Result(f, win) ==
    IF isForgoDOMElement(f)
    THEN findReplacementCandidateForDOMElement(World, f, dom[win.parent].childNodes,
                                               win.start, win.length)
    ELSE findReplacementCandidateForCustomComponent(World, f, dom[win.parent].childNodes,
                                                    win.start, win.length)

\* C21: over every window of the document, the matcher returns the lowest
\* index whose node matches the description (by key when the description
\* has one, whatever its value; by tag name or first constructor
\* otherwise), and not found exactly when no node of the window matches.
C21_MatcherReturnsFirstMatch ==
    \A win \in C21_Windows :
       (win.start + win.length <= Len(dom[win.parent].childNodes)) =>
           \A f \in C21_Descriptions : C21_Result(f, win) = C21_Expected(f, win)

-----------------------------------------------------------------------------
(* C22: the child list of an element after its children were reconciled. *)

\* C22: for every completed reconciliation of an element's children, the
\* element's child list is the sequence of the nodes produced for the
\* flattened child descriptions, none of them produced for a null or
\* undefined description, and the children that were left over are detached
\* and had the components on them unmounted.
C22_ChildrenAreProduced ==
    \A j \in 1..Len(reconciled) :
       /\ reconciled[j].children = reconciled[j].produced
       /\ reconciled[j].fromNull = << >>
       /\ reconciled[j].detached
       /\ C16_Invoked(reconciled[j]) = C19_Due(reconciled[j])

-----------------------------------------------------------------------------
(* C23: the tree after an error boundary substituted during mount(). *)

\* the last call was a mount() on the container in which the error callback
\* of the mounted component was invoked and that returned normally
C23_Substituted ==
    /\ op.name = "mount" /\ op.container = Root /\ op.err = NoErr
    /\ op.forgoNode.t = "comp"
    /\ \E k \in 1..Len(log) :
          log[k].ev = "error" /\ insts[log[k].inst].ctor = op.forgoNode.type

\* the nodes the last call created that are in the document
C23_NewLiveNodes == {n \in (Len(prev.dom) + 1)..Len(dom) : InDocument(dom, n)}

\* a node and the nodes under it
RECURSIVE C23_Subtree(_)
C23_Subtree(n) ==
    {n} \cup UNION {C23_Subtree(dom[n].childNodes[i]) : i \in 1..Len(dom[n].childNodes)}

\* C23: after mount() of a component whose error callback substituted its
\* description for the failed subtree, the nodes the call left in the
\* document are the nodes of the error description and no others, and the
\* component's mount callback was invoked once.
C23_OnlyErrorOutputRemains ==
    C23_Substituted =>
        /\ Len(op.nodes) = 1
        /\ ShapeOf(dom, op.nodes[1]) = ExpectedShape(ErrorOut(op.forgoNode.type))
        /\ C23_NewLiveNodes = C23_Subtree(op.nodes[1])
        /\ Cardinality({k \in 1..Len(log) :
                           /\ log[k].ev = "mount"
                           /\ insts[log[k].inst].ctor = op.forgoNode.type}) = 1

-----------------------------------------------------------------------------
(* C24: a reused component whose render throws. *)

\* the render invocations of the last call that threw, on a component that
\* existed before the call and has an error callback
C24_ReusedThrows ==
    {k \in 1..Len(log) :
        /\ op.name \in {"mount", "rerender"}
        /\ log[k].ev = "render" /\ log[k].value = Thrown
        /\ log[k].inst <= Len(prev.insts)
        /\ HasError(insts[log[k].inst].ctor)}

\* C24: when the render of a component that was already mounted throws in
\* a pass and the component has an error callback, the callback is invoked
\* with the thrown value and the call returns normally.
C24_OwnErrorCallback ==
    \A k \in C24_ReusedThrows :
       /\ \E j \in (k + 1)..Len(log) :
             log[j].ev = "error" /\ log[j].inst = log[k].inst /\ log[j].value = Thrown
       /\ op.err = NoErr

-----------------------------------------------------------------------------
(* C25: afterRender at a commit of a stack to a node. *)

\* the afterRender invocations due at a commit: one for every state of the
\* new stack that defines it, with the node its args referenced before
RECURSIVE C25_Due(_, _)
C25_Due(states, previous) ==
    IF states = << >> THEN << >>
    ELSE (IF HasAfterRender(cs[Head(states)].ctor)
          THEN <<[state |-> Head(states), previousNode |-> Head(previous)]>>
          ELSE << >>) \o C25_Due(Tail(states), Tail(previous))

\* what attachProps invoked at the commit
C25_Invoked(s) ==
    [i \in 1..(s.first - s.entered) |->
        [state |-> log[s.entered + i - 1].state,
         previousNode |-> log[s.entered + i - 1].previousNode]]

\* C25: at every commit of a stack to a node, afterRender is invoked once
\* for every state of the new stack that defines it, in order, with the
\* node the state's args.element.node referenced before the commit as
\* previousNode; at each invocation args.element.node is the node of the
\* commit and the node already carries the new stack and, for an element,
\* the description's props.
C25_AfterRenderAtCommit ==
    \A j \in 1..Len(syncs) :
       /\ C25_Invoked(syncs[j]) = C25_Due(syncs[j].new, syncs[j].previous)
       /\ \A k \in syncs[j].entered..(syncs[j].first - 1) :
             /\ log[k].ev = "afterRender"
             /\ log[k].node = syncs[j].node
             /\ log[k].forgo.has
             /\ log[k].forgo.components = syncs[j].new
             /\ syncs[j].element =>
                   log[k].forgo.hasProps /\ log[k].forgo.props = syncs[j].props

C25_Witness ==
    \E j \in 1..Len(syncs) :
       /\ syncs[j].first - syncs[j].entered = 2
       /\ log[syncs[j].entered].previousNode # NoNode
       /\ log[syncs[j].entered].previousNode # syncs[j].node
       /\ log[syncs[j].entered + 1].previousNode = NoNode

-----------------------------------------------------------------------------
(* C26: rendering a primitive over a non-empty window. *)

\* no text node of the document before the call has another text after it
C26_TextsKept == \A n \in 1..Len(prev.dom) : dom[n].text = prev.dom[n].text

\* the fresh text node took the place of the node at the current index,
\* which left its parent
C26_Replaced(t) ==
    /\ t.fresh
    /\ Len(t.after) = Len(t.before)
    /\ FindIndex(t.after, t.textNode) = FindIndex(t.before, t.target)
    /\ t.targetParent = NoNode

\* the fresh text node was put before the node at the current index, which
\* stayed
C26_Inserted(t) ==
    /\ t.fresh
    /\ Len(t.after) = Len(t.before) + 1
    /\ FindIndex(t.after, t.textNode) = FindIndex(t.before, t.target)
    /\ FindIndex(t.after, t.target) = FindIndex(t.before, t.target) + 1
    /\ t.targetParent = t.parent

\* C26 as stated: every primitive rendered over a non-empty window replaces
\* the node at the current index with a fresh text node, the child count
\* unchanged, and no text node is changed in place.
C26_AlwaysReplaces ==
    /\ C26_TextsKept
    /\ \A j \in 1..Len(texts) : C26_Replaced(texts[j])

\* C26 amended: every primitive rendered over a non-empty window creates a
\* fresh text node; it replaces the node at the current index when that node
\* is a text node, and is inserted before it, the node staying, when it is
\* not; no text node is changed in place.
C26_ReplacesTextOnly ==
    /\ C26_TextsKept
    /\ \A j \in 1..Len(texts) :
          IF texts[j].targetType = TEXT_NODE_TYPE
          THEN C26_Replaced(texts[j]) ELSE C26_Inserted(texts[j])

C26_Witness ==
    /\ op.err = NoErr
    /\ \E j \in 1..Len(texts) :
          /\ texts[j].targetType = TEXT_NODE_TYPE
          /\ InDocument(prev.dom, texts[j].target) /\ ~InDocument(dom, texts[j].target)
          /\ InDocument(dom, texts[j].textNode)

-----------------------------------------------------------------------------
(* C27: numNodes and args.element.node of the mounted component states. *)

\* the component states on the nodes of the document
C27_MountedStates ==
    UNION {{dom[n].forgo.components[i] : i \in 1..Len(dom[n].forgo.components)} :
           n \in {m \in 1..Len(dom) : InDocument(dom, m)}}

\* the nodes are siblings at consecutive positions, the first of them first
C27_ConsecutiveFrom(nodes, first) ==
    /\ first \in nodes
    /\ LET kids == dom[dom[first].parentNode].childNodes
           at == FindIndex(kids, first)
       IN  nodes = {kids[at + i] : i \in 1..Min(Cardinality(nodes), Len(kids) - at)}

\* C27: after a completed mount() or rerender(), for every component state
\* on a node of the document: numNodes is the number of nodes that carry
\* it, these are consecutive siblings, args.element.node is the first of
\* them, and that node carries the state at index componentIndex.
C27_SpanIsRecorded ==
    (op.name \in {"mount", "rerender"} /\ op.err = NoErr) =>
        \A sid \in C27_MountedStates :
           LET nodes == LiveNodesOf(dom, sid)
               element == insts[cs[sid].inst]
           IN  /\ cs[sid].numNodes = Cardinality(nodes)
               /\ C27_ConsecutiveFrom(nodes, element.node)
               /\ At(dom[element.node].forgo.components, element.componentIndex) = sid

-----------------------------------------------------------------------------
(* C28: rerender() leaves the siblings of the component's span alone.      *)

\* the live nodes that carried the re-rendered state before the call
C28_Span == LiveNodesOf(prev.dom, TargetState)
C28_Parent == parentElementOf(prev, op.element.node)
RECURSIVE C28_Without(_, _)
C28_Without(seq, nodes) ==
    IF seq = << >> THEN << >>
    ELSE IF Head(seq) \in nodes THEN C28_Without(Tail(seq), nodes)
         ELSE <<Head(seq)>> \o C28_Without(Tail(seq), nodes)
\* the siblings of the span, in document order, before the call
C28_Siblings == C28_Without(prev.dom[C28_Parent].childNodes, C28_Span)
C28_SiblingSet == {C28_Siblings[k] : k \in 1..Len(C28_Siblings)}
\* the component states that were mounted on the siblings only
C28_SiblingStates ==
    UNION {{prev.dom[n].forgo.components[i] : i \in 1..Len(prev.dom[n].forgo.components)} :
           n \in C28_SiblingSet}
        \ UNION {{prev.dom[n].forgo.components[i] :
                     i \in 1..Len(prev.dom[n].forgo.components)} : n \in C28_Span}
C28_Kept(seq) == C28_Without(seq, (1..Len(dom)) \ C28_SiblingSet)
\* C28: a rerender() of a live component keeps every sibling of the
\* component's span in its parent, in the same order and on the same side
\* of the span, with the same attached state, and invokes no callback of a
\* component mounted on a sibling.
C28_SiblingsUntouched ==
    (op.name = "rerender" /\ TargetState # NoNode /\ InDocument(prev.dom, op.element.node)) =>
        /\ C28_Kept(dom[C28_Parent].childNodes) = C28_Siblings
        /\ \A n \in C28_SiblingSet : dom[n].forgo = prev.dom[n].forgo
        /\ \A e \in Events : e.state \notin C28_SiblingStates

-----------------------------------------------------------------------------
(* C29: one mount callback per component instance.                         *)

C29_Is(k, ev, inst) == log[k].ev = ev /\ log[k].inst = inst
\* the instance was mounted on a node of the document before the call
C29_WasLive(inst) ==
    \E n \in 1..Len(prev.dom) :
        /\ InDocument(prev.dom, n)
        /\ \E j \in 1..Len(prev.dom[n].forgo.components) :
              prev.cs[prev.dom[n].forgo.components[j]].inst = inst
\* C29: within one call, a component instance's mount callback is invoked
\* again only after its unmount callback, and the mount callback of an
\* instance that was already mounted in the document before the call is
\* invoked only after its unmount callback.
C29_MountedOnce ==
    \A j \in 1..Len(log) :
        log[j].ev = "mount" =>
            /\ \A i \in 1..(j - 1) :
                  C29_Is(i, "mount", log[j].inst) =>
                      \E k \in (i + 1)..(j - 1) : C29_Is(k, "unmount", log[j].inst)
            /\ (op.name # "render" /\ C29_WasLive(log[j].inst)) =>
                  \E k \in 1..(j - 1) : C29_Is(k, "unmount", log[j].inst)

-----------------------------------------------------------------------------
(* C30: a component nested directly inside the re-rendered one is reused.  *)

\* the state stacked directly above the re-rendered one on the same node
C30_Inner ==
    At(prev.dom[op.element.node].forgo.components, op.element.componentIndex + 1)
\* the description the re-rendered component's render returned
C30_Described ==
    RenderOut(prev.cs[TargetState].ctor,
              IF op.props = NoProps THEN prev.cs[TargetState].props ELSE op.props,
              counter)
\* the last call re-rendered a component whose render returned a component
\* of the constructor and key of the one nested directly inside it
C30_Case ==
    /\ op.name = "rerender" /\ op.err = NoErr
    /\ TargetState # NoNode
    /\ InDocument(prev.dom, op.element.node)
    /\ C30_Inner # NoNode
    /\ \E e \in Events : e.ev = "render" /\ e.inst = prev.cs[TargetState].inst
    /\ C30_Described.t = "comp"
    /\ C30_Described.type = prev.cs[C30_Inner].ctor
    /\ C30_Described.key = prev.cs[C30_Inner].key
\* C30: in that case the constructor of the inner component is not called,
\* and no mount or unmount callback of the inner or the outer instance is
\* invoked.
C30_InnerReused ==
    C30_Case =>
        \A e \in Events :
            /\ e.ev = "construct" => cs[e.state].ctor # prev.cs[C30_Inner].ctor
            /\ e.ev \in {"mount", "unmount"} =>
                  e.inst \notin {prev.cs[TargetState].inst, prev.cs[C30_Inner].inst}

====
